---- MODULE Spec2Model ----
(***************************************************************************)
(* Inventory projection and milestone aggregation engine                   *)
(* (src/src/utils/inventory_projections.py, src/config/settings.py).       *)
(*                                                                         *)
(* Python values are modelled as records [t, s, n, y]:                     *)
(*   t="none"   None / NaN / a missing DataFrame cell                      *)
(*   t="num"    a JSON number n                                            *)
(*   t="str"    a text string s that is neither digits nor a date          *)
(*   t="digits" a string made of the decimal digits of n ("13")            *)
(*   t="date"   a string holding a full calendar date, month n, year y     *)
(* Optional integers (None or an int) are <<>> or <<k>>.                   *)
(* Python dicts are functions whose DOMAIN is the key set.                 *)
(*                                                                         *)
(* State: the stored employee and inventory rows, the calendar month of    *)
(* datetime.now(), and the arguments and returned value of the call in     *)
(* progress.  A call is one action; Return hands its value to the caller.  *)
(* SpecCount calls the milestone counter, Spec the depletion simulator.    *)
(* The specifications of the inventory update and of the scheduler add the *)
(* fields of the InventoryScheduler instance, the local state of the       *)
(* asyncio tasks and worker threads in progress, and the lines the program *)
(* writes to its log.                                                      *)
(***************************************************************************)
EXTENDS Integers, Sequences, FiniteSets, TLC

VARIABLES milestone_data, inventory_data, now, call, result,
          scheduler, tasks, log

vars == <<milestone_data, inventory_data, now, call, result, scheduler, tasks, log>>

----------------------------------------------------------------------------
(* Python values *)

PyNone == [t |-> "none", s |-> "", n |-> 0, y |-> 0]
Num(k) == [t |-> "num", s |-> "", n |-> k, y |-> 0]
Str(x) == [t |-> "str", s |-> x, n |-> 0, y |-> 0]
Digits(k) == [t |-> "digits", s |-> "", n |-> k, y |-> 0]
DateStr(m, yy) == [t |-> "date", s |-> "", n |-> m, y |-> yy]

None == << >>
Some(k) == <<k>>

EmptyDict == [k \in {} |-> 0]

dict_get(d, k, default) == IF k \in DOMAIN d THEN d[k] ELSE default

\* pd.isna(v)
isna(v) == v.t = "none"

\* `not v`
falsy(v) ==
    \/ v.t = "none"
    \/ v.t = "num" /\ v.n = 0
    \/ v.t = "str" /\ v.s = ""

\* str(v)
str(v) == IF v.t = "str" THEN v.s ELSE ToString(v.n)

\* variant: outer whitespace is kept
strip_kept(x) == x

\* str.strip() on the strings of the model that carry outer whitespace
strip(x) ==
    CASE x = "  " -> ""
      [] x = " YIT " -> "YIT"
      [] OTHER -> x

\* row.get(col) on a DataFrame row: a column the record lacks is NaN
row_get(row, col) == IF col \in DOMAIN row THEN row[col] ELSE PyNone

\* pd.DataFrame(data).columns
df_columns(data) == UNION {DOMAIN data[i] : i \in 1..Len(data)}

NoCol == "<None>"

RECURSIVE first_present(_, _)
\* next((f for f in fields if f in df.columns), None)
first_present(fields, columns) ==
    IF fields = << >> THEN NoCol
    ELSE IF Head(fields) \in columns THEN Head(fields)
    ELSE first_present(Tail(fields), columns)

----------------------------------------------------------------------------
(* config/settings.py *)

LOW_INVENTORY_THRESHOLD == 40

LOCATION_ALIASES ==
    [a \in {"YASH IT Part", "Indore YIT", "YIT", "Yash IT Park", "YASH IT Park",
            "CIT", "Indore-Crystal IT Park-DC"} |-> "Indore-YASH IT Park-SC-DC"]
    @@ [a \in {"Mindspace", "Hyd", "MIDC"} |-> "Hyderabad-Mindspace I-DC"]
    @@ [a \in {"BTC"} |-> "Indore-BTC-CO"]
    @@ [a \in {"Magarpatta", "Pune-Hinjewadi III-DC"} |-> "Pune"]
    @@ [a \in {"BNG", "Bangalore-Whitefield-DC", "Bangalore-BHIVE-DC"} |-> "Bangalore"]

----------------------------------------------------------------------------
(* inventory_projections.py: extract_month_from_date, normalize_location *)

\* calendar length of month m of year yy
days_in_month(m, yy) ==
    IF m = 2
    THEN (IF yy % 4 = 0 /\ (yy % 100 # 0 \/ yy % 400 = 0) THEN 29 ELSE 28)
    ELSE IF m \in {4, 6, 9, 11} THEN 30 ELSE 31

\* dateutil parse(date_str).month; <<>> when parse raises.  A bare number
\* that is no month is read as a day of the current month (13..31, when
\* the month has that day) or as a year (32 and above); the fields the
\* string does not give default to today's.
parse_month(v) ==
    CASE v.t = "date" -> Some(v.n)
      [] v.t = "digits" /\ v.n \in 13..31 ->
            IF v.n <= days_in_month(now.month, now.year) THEN Some(now.month) ELSE None
      [] v.t = "digits" /\ v.n >= 32 -> Some(now.month)
      [] OTHER -> None

extract_month_from_date(date_value) ==
    IF falsy(date_value) \/ isna(date_value) THEN None
    ELSE IF date_value.t = "num"
         THEN IF 1 <= date_value.n /\ date_value.n <= 12
              THEN Some(date_value.n) ELSE None
    ELSE IF date_value.t = "str" /\ strip(date_value.s) \in {"nan", "nat", "none", ""}
         THEN None
    ELSE IF date_value.t = "digits" /\ 1 <= date_value.n /\ date_value.n <= 12
         THEN Some(date_value.n)
    ELSE parse_month(date_value)

normalize_location(location_name) ==
    IF falsy(location_name) \/ isna(location_name) THEN "Unknown"
    ELSE LET location_str == strip(str(location_name))
         IN  dict_get(LOCATION_ALIASES, location_str, location_str)

----------------------------------------------------------------------------
(* inventory_projections.py: calculate_monthly_milestone_counts *)

location_fields == <<"Place of posting", "Base Location Name", "Base Location  Name", "Location">>
dob_fields == <<"Date of Birth (as per Records)", "DOB", "Date of Birth">>
dom_fields == <<"Date of Marriage", "Marriage Date">>
doj_fields == <<"Employment Details Date of Joining", "Date of Joining", "DOJ">>
dob_month_fields == <<"MM Birth - WE Celebrate", "Birth Month">>
doj_month_fields == <<"MM Service Completion - WE Celebrate", "Service Month">>

\* variant: the count is set to 1 instead of being added to
increment_overwrite(counts, location) ==
    (location :> 1) @@ counts

\* counts[location] = counts.get(location, 0) + 1
increment(counts, location) ==
    (location :> (dict_get(counts, location, 0) + 1)) @@ counts

\* variant: a dated milestone counts only from the year of its date on
month_is_target_in_year(value, target_month, target_year) ==
    /\ extract_month_from_date(value) = Some(target_month)
    /\ value.t = "date" => value.y <= target_year

\* month = extract_month_from_date(value); month == target_month
month_is_target(value, target_month, target_year) ==
    extract_month_from_date(value) = Some(target_month)

\* variant: a missing location is not replaced by "Unknown"
row_location_unreplaced(row, location_col) ==
    LET location == row_get(row, location_col)
        location1 == IF isna(location) THEN Str("nan") ELSE location
    IN  normalize_location(Str(strip(str(location1))))

\* location of one row (lines 95-99)
row_location(row, location_col) ==
    LET location == row_get(row, location_col)
        location1 == IF falsy(location) \/ isna(location) THEN Str("Unknown") ELSE location
    IN  normalize_location(Str(strip(str(location1))))

\* `if col and col in row`: a DataFrame row is indexed by every column of
\* the frame, whatever keys the record itself had
col_in_row(col, columns) == col # NoCol /\ col \in columns

\* if month_col and month_col in row: month from the month column
\* elif date_col and date_col in row: month from the date column
\* (lines 102-109 for birthdays, 118-125 for service completions)
count_month_or_date(counts, row, columns, month_col, date_col, location, target_month, target_year) ==
    IF col_in_row(month_col, columns)
    THEN IF month_is_target(row_get(row, month_col), target_month, target_year)
         THEN increment(counts, location) ELSE counts
    ELSE IF col_in_row(date_col, columns)
    THEN IF month_is_target(row_get(row, date_col), target_month, target_year)
         THEN increment(counts, location) ELSE counts
    ELSE counts

\* if dom_col and dom_col in row (lines 112-115)
count_date(counts, row, columns, date_col, location, target_month, target_year) ==
    IF col_in_row(date_col, columns)
       /\ month_is_target(row_get(row, date_col), target_month, target_year)
    THEN increment(counts, location)
    ELSE counts

\* the body of the loop for one row; c = <<birthday, anniversary, service>>
count_row(c, row, columns, cols, target_month, target_year) ==
    LET location == row_location(row, cols.location_col)
    IN  << count_month_or_date(c[1], row, columns, cols.dob_month_col, cols.dob_col,
                               location, target_month, target_year),
           count_date(c[2], row, columns, cols.dom_col,
                      location, target_month, target_year),
           count_month_or_date(c[3], row, columns, cols.doj_month_col, cols.doj_col,
                               location, target_month, target_year) >>

RECURSIVE count_rows(_, _, _, _, _, _, _)
\* for idx, row in df.iterrows(), from row i on
count_rows(data, i, c, columns, cols, target_month, target_year) ==
    IF i > Len(data) THEN c
    ELSE count_rows(data, i + 1,
                    count_row(c, data[i], columns, cols, target_month, target_year),
                    columns, cols, target_month, target_year)

\* the columns found in the data set (lines 82-87)
find_cols(columns) ==
    [location_col |-> first_present(location_fields, columns),
     dob_col |-> first_present(dob_fields, columns),
     dob_month_col |-> first_present(dob_month_fields, columns),
     dom_col |-> first_present(dom_fields, columns),
     doj_col |-> first_present(doj_fields, columns),
     doj_month_col |-> first_present(doj_month_fields, columns)]

\* variant: the rows are counted even when no location column was found
calculate_monthly_milestone_counts_unguarded(data, target_month, target_year) ==
    LET columns == df_columns(data)
        cols == find_cols(columns)
    IN  count_rows(data, 1, <<EmptyDict, EmptyDict, EmptyDict>>,
                   columns, cols, target_month, target_year)

\* returns <<birthday_counts, anniversary_counts, service_counts>>
calculate_monthly_milestone_counts(data, target_month, target_year) ==
    LET columns == df_columns(data)
        cols == find_cols(columns)
    IN  IF cols.location_col = NoCol
        THEN <<EmptyDict, EmptyDict, EmptyDict>>
        ELSE count_rows(data, 1, <<EmptyDict, EmptyDict, EmptyDict>>,
                        columns, cols, target_month, target_year)

----------------------------------------------------------------------------
(* inventory_projections.py: get_current_inventory_by_location *)

\* the lower-cased search words each workbook label of the model contains
LabelWords ==
    ("Birthday" :> {"birthday"})
    @@ ("As on 03-10-25" :> {"as on"})
    @@ ("Anniversary Gifts" :> {"anniversary"})
    @@ ("Service Completion" :> {"service"})
    @@ ("Birthday Service" :> {"birthday", "service"})
    @@ ("BIRTHDAY GIFTS" :> {"birthday"})
    @@ ("Service as on 03-10-25" :> {"as on", "service"})
    @@ ("Welcome Kit" :> {})

\* word in workbook.lower()
contains_lower(workbook, word) == word \in LabelWords[workbook]

\* "quantity" in key.lower() and "received" in key.lower()
is_quantity_key(key) == key \in {"Quantity Received", "QUANTITY RECEIVED", "Received Quantity"}

\* the first key of data that names the received quantity, or NoCol
find_quantity_col(data) ==
    IF \E key \in DOMAIN data : is_quantity_key(key)
    THEN CHOOSE key \in DOMAIN data : is_quantity_key(key)
    ELSE NoCol

\* variant: a quantity that is no number counts as one unit
parse_quantity_unit(v) ==
    IF falsy(v) THEN 0
    ELSE IF v.t \in {"num", "digits"} THEN v.n
    ELSE 1

\* int(v) if v else 0, a ValueError or TypeError giving 0 (lines 152-155)
parse_quantity(v) ==
    IF falsy(v) THEN 0
    ELSE IF v.t \in {"num", "digits"} THEN v.n
    ELSE 0

\* variant: "service" is looked for first
workbook_gift_type_service_first(workbook) ==
    IF contains_lower(workbook, "service") THEN "service_completion"
    ELSE IF contains_lower(workbook, "birthday") THEN "birthday"
    ELSE IF contains_lower(workbook, "as on") \/ contains_lower(workbook, "anniversary")
         THEN "anniversary"
    ELSE NoCol

\* lines 158-164; NoCol stands for gift_type = None
workbook_gift_type(workbook) ==
    IF contains_lower(workbook, "birthday") THEN "birthday"
    ELSE IF contains_lower(workbook, "as on") \/ contains_lower(workbook, "anniversary")
         THEN "anniversary"
    ELSE IF contains_lower(workbook, "service") THEN "service_completion"
    ELSE NoCol

\* variant: the quantity of a later row replaces the sum so far
add_quantity_overwrite(inventory_summary, loc, gift_type, quantity) ==
    LET of_loc == dict_get(inventory_summary, loc, EmptyDict)
    IN  (loc :> ((gift_type :> quantity) @@ of_loc)) @@ inventory_summary

\* inventory_summary[loc][gift_type] = inventory_summary[loc].get(gift_type, 0) + quantity
add_quantity(inventory_summary, loc, gift_type, quantity) ==
    LET of_loc == dict_get(inventory_summary, loc, EmptyDict)
    IN  (loc :> ((gift_type :> (dict_get(of_loc, gift_type, 0) + quantity)) @@ of_loc))
        @@ inventory_summary

\* the body of the loop over inventory_data for one item (lines 140-171)
summarize_item(inventory_summary, item) ==
    LET loc == normalize_location(item.location)
        quantity_col == find_quantity_col(item.data)
        gift_type == workbook_gift_type(item.workbook)
    IN  IF quantity_col # NoCol /\ gift_type # NoCol
        THEN add_quantity(inventory_summary, loc, gift_type,
                          parse_quantity(row_get(item.data, quantity_col)))
        ELSE inventory_summary

RECURSIVE summarize(_, _, _)
\* for item in inventory_data, from item i on
summarize(data, i, inventory_summary) ==
    IF i > Len(data) THEN inventory_summary
    ELSE summarize(data, i + 1, summarize_item(inventory_summary, data[i]))

\* variant: the filter keeps only a key the snapshot has
get_current_inventory_by_location_restricted(location) ==
    LET inventory_summary == summarize(inventory_data, 1, EmptyDict)
    IN  IF ~falsy(location)
        THEN [l \in DOMAIN inventory_summary \cap {normalize_location(location)}
                |-> inventory_summary[l]]
        ELSE inventory_summary

get_current_inventory_by_location(location) ==
    LET inventory_summary == summarize(inventory_data, 1, EmptyDict)
    IN  IF ~falsy(location)
        THEN LET normalized_loc == normalize_location(location)
             IN  normalized_loc :> dict_get(inventory_summary, normalized_loc, EmptyDict)
        ELSE inventory_summary

----------------------------------------------------------------------------
(* inventory_projections.py: calculate_months_until_restock *)

\* calendar.month_name[1..12]
month_name ==
    <<"January", "February", "March", "April", "May", "June", "July",
      "August", "September", "October", "November", "December">>

\* lines 317-322
usage_of(gift_type, c, normalized_location) ==
    IF gift_type = "birthday" THEN dict_get(c[1], normalized_location, 0)
    ELSE IF gift_type = "anniversary" THEN dict_get(c[2], normalized_location, 0)
    ELSE dict_get(c[3], normalized_location, 0)

\* variant: the remaining stock is floored at zero
subtract_usage_floored(remaining_stock, usage) ==
    IF remaining_stock - usage < 0 THEN 0 ELSE remaining_stock - usage

\* remaining_stock -= usage
subtract_usage(remaining_stock, usage) == remaining_stock - usage

\* variant: a stock equal to the threshold counts as a breach
threshold_hit_inclusive(remaining_stock, months_until_restock) ==
    remaining_stock <= LOW_INVENTORY_THRESHOLD /\ months_until_restock = None

\* remaining_stock < LOW_INVENTORY_THRESHOLD and months_until_restock is None
threshold_hit(remaining_stock, months_until_restock) ==
    remaining_stock < LOW_INVENTORY_THRESHOLD /\ months_until_restock = None

\* variant: the loop has no break
loop_runs_no_break(month_offset, max_months, months_until_restock) ==
    month_offset < max_months

\* the loop runs month_offset over range(max_months) until the break, which
\* is taken in the iteration that sets months_until_restock
loop_runs(month_offset, max_months, months_until_restock) ==
    month_offset < max_months /\ months_until_restock = None

\* variant: the year is not carried over the end of December
target_of_same_year(current_month, current_year, month_offset) ==
    [month |-> ((current_month - 1 + month_offset) % 12) + 1,
     year |-> current_year]

\* the simulated calendar month of an offset (lines 308-309)
target_of(current_month, current_year, month_offset) ==
    [month |-> ((current_month - 1 + month_offset) % 12) + 1,
     year |-> current_year + ((current_month - 1 + month_offset) \div 12)]

RECURSIVE simulate(_, _, _, _, _)
\* the for loop (lines 306-337) from month_offset on; st holds the locals
\* remaining_stock, monthly_breakdown and months_until_restock
simulate(month_offset, st, normalized_location, gift_type, max_months) ==
    IF ~loop_runs(month_offset, max_months, st.months_until_restock) THEN st
    ELSE LET target == target_of(now.month, now.year, month_offset)
             c == calculate_monthly_milestone_counts(milestone_data, target.month, target.year)
             usage == usage_of(gift_type, c, normalized_location)
             remaining_stock == subtract_usage(st.remaining_stock, usage)
             entry == [month |-> month_name[target.month], year |-> target.year,
                       usage |-> usage, remaining_stock |-> remaining_stock]
         IN  simulate(month_offset + 1,
                      [remaining_stock |-> remaining_stock,
                       monthly_breakdown |-> Append(st.monthly_breakdown, entry),
                       months_until_restock |->
                           IF threshold_hit(remaining_stock, st.months_until_restock)
                           THEN Some(month_offset) ELSE st.months_until_restock],
                      normalized_location, gift_type, max_months)

\* variant: months_until_restock stays None when no breach was found
restock_outcome_unset(months_until_restock, max_months) ==
    IF months_until_restock = None
    THEN <<None, "not_needed_within_projection">>
    ELSE <<months_until_restock, "restock_needed">>

\* lines 339-344: <<months_until_restock, restock_status>>
restock_outcome(months_until_restock, max_months) ==
    IF months_until_restock = None
    THEN <<Some(max_months), "not_needed_within_projection">>
    ELSE <<months_until_restock, "restock_needed">>

calculate_months_until_restock(location, gift_type, max_months) ==
    LET normalized_location == normalize_location(location)
        inventory == get_current_inventory_by_location(Str(normalized_location))
    IN  IF normalized_location \notin DOMAIN inventory
        THEN [kind |-> "error", error |-> "No inventory found for location",
              location |-> location, normalized_location |-> normalized_location]
        ELSE LET location_inventory == inventory[normalized_location]
                 current_stock == dict_get(location_inventory, gift_type, 0)
                 st == simulate(0, [remaining_stock |-> current_stock,
                                    monthly_breakdown |-> << >>,
                                    months_until_restock |-> None],
                                normalized_location, gift_type, max_months)
                 outcome == restock_outcome(st.months_until_restock, max_months)
             IN  IF st.monthly_breakdown = << >>
                 THEN \* monthly_breakdown[-1] of an empty list (line 355)
                      [kind |-> "exception", error |-> "IndexError"]
                 ELSE [kind |-> "projection",
                       location |-> location,
                       normalized_location |-> normalized_location,
                       gift_type |-> gift_type,
                       current_stock |-> current_stock,
                       threshold |-> LOW_INVENTORY_THRESHOLD,
                       months_until_restock |-> outcome[1],
                       restock_status |-> outcome[2],
                       monthly_breakdown |-> st.monthly_breakdown]

----------------------------------------------------------------------------
(* inventory_projections.py: get_location_inventory_projection,
   get_all_locations_restock_schedule *)

\* a number of months that may be float('inf')
Fin(k) == [inf |-> FALSE, n |-> k]
Inf == [inf |-> TRUE, n |-> 0]

\* a <= b
ext_le(a, b) == b.inf \/ (~a.inf /\ a.n <= b.n)

\* min(a, b, c)
ext_min(a, b, c) ==
    LET ab == IF ext_le(a, b) THEN a ELSE b
    IN  IF ext_le(ab, c) THEN ab ELSE c

\* projection.get("months_until_restock"): an error result has no such key
get_months(projection) ==
    IF projection.kind = "projection" THEN projection.months_until_restock ELSE None

\* projection.get("months_until_restock", float('inf'))
get_months_or_inf(projection) ==
    IF projection.kind = "projection" THEN Fin(projection.months_until_restock[1]) ELSE Inf

\* lines 379-397: the report built from the projections of the three gift
\* types.  generated_at, the wall-clock text, is not part of the value.
location_report(location, months_ahead, projection) ==
    [kind |-> "report",
     location |-> location,
     normalized_location |-> normalize_location(location),
     projection_months |-> months_ahead,
     birthday_gifts |-> projection["birthday"],
     anniversary_gifts |-> projection["anniversary"],
     service_completion_gifts |-> projection["service_completion"],
     summary |->
        [birthday_restock_in_months |-> get_months(projection["birthday"]),
         anniversary_restock_in_months |-> get_months(projection["anniversary"]),
         service_restock_in_months |-> get_months(projection["service_completion"]),
         earliest_restock_needed |->
             ext_min(get_months_or_inf(projection["birthday"]),
                     get_months_or_inf(projection["anniversary"]),
                     get_months_or_inf(projection["service_completion"]))]]

\* lines 375-377 call calculate_months_until_restock once for each gift
\* type; an exception of a call leaves the function
get_location_inventory_projection(location, months_ahead) ==
    CHOOSE report \in
        {IF \E gift_type \in DOMAIN projection : projection[gift_type].kind = "exception"
         THEN [kind |-> "exception", error |-> "IndexError"]
         ELSE location_report(location, months_ahead, projection) :
            projection \in
                {[gift_type \in {"birthday", "anniversary", "service_completion"} |->
                    calculate_months_until_restock(location, gift_type, months_ahead)]}} :
        TRUE

RECURSIVE inventory_keys(_, _, _)
\* inventory.keys(): the locations of the snapshot in the order the loop
\* over inventory_data first stored each of them
inventory_keys(data, i, keys) ==
    IF i > Len(data) THEN keys
    ELSE LET loc == normalize_location(data[i].location)
             stored == /\ find_quantity_col(data[i].data) # NoCol
                       /\ workbook_gift_type(data[i].workbook) # NoCol
                       /\ \A j \in 1..Len(keys) : keys[j] # loc
         IN  inventory_keys(data, i + 1, IF stored THEN Append(keys, loc) ELSE keys)

\* variant: a restock is urgent only when needed in less than 3 months
is_urgent_strict(earliest_restock_needed) ==
    ext_le(earliest_restock_needed, Fin(2))

\* summary.get("earliest_restock_needed", float('inf')) <= 3
is_urgent(earliest_restock_needed) ==
    ext_le(earliest_restock_needed, Fin(3))

RECURSIVE schedule_locations(_, _, _, _)
\* variant: only the report of an urgent location is kept
schedule_location_urgent_only(st, location, location_schedule) ==
    IF location_schedule.kind = "exception"
    THEN [st EXCEPT !.raised = TRUE]
    ELSE LET summary == location_schedule.summary
         IN  IF is_urgent(summary.earliest_restock_needed)
             THEN [all_locations_schedule |->
                       (location :> location_schedule) @@ st.all_locations_schedule,
                   urgent_restocks |->
                       Append(st.urgent_restocks,
                              [location |-> location,
                               months_until_restock |-> summary.earliest_restock_needed,
                               details |-> summary]),
                   raised |-> FALSE]
             ELSE st

\* the body of the loop of lines 415-426 for one location, given its report
schedule_location(st, location, location_schedule) ==
    IF location_schedule.kind = "exception"
    THEN [st EXCEPT !.raised = TRUE]
    ELSE LET summary == location_schedule.summary
         IN  [all_locations_schedule |->
                  (location :> location_schedule) @@ st.all_locations_schedule,
              urgent_restocks |->
                  IF is_urgent(summary.earliest_restock_needed)
                  THEN Append(st.urgent_restocks,
                              [location |-> location,
                               months_until_restock |-> summary.earliest_restock_needed,
                               details |-> summary])
                  ELSE st.urgent_restocks,
              raised |-> FALSE]

\* the loop of lines 415-426 from key i on; st holds all_locations_schedule,
\* urgent_restocks and whether a projection raised, and the next iteration
\* starts from what this one leaves
schedule_locations(keys, i, st, max_months) ==
    IF i > Len(keys) \/ st.raised THEN st
    ELSE CHOOSE schedule \in
            {schedule_locations(keys, i + 1, after, max_months) :
                after \in
                    {schedule_location(st, keys[i], location_schedule) :
                        location_schedule \in
                            {get_location_inventory_projection(Str(keys[i]), max_months)}}} :
            TRUE

\* a sorted list with x put after the entries whose key is not larger
insert_by_months(list, x) ==
    LET k == Cardinality({j \in 1..Len(list) :
                 ext_le(list[j].months_until_restock, x.months_until_restock)})
    IN  SubSeq(list, 1, k) \o <<x>> \o SubSeq(list, k + 1, Len(list))

RECURSIVE sorted_by_months(_)
\* sorted(urgent_restocks, key=lambda x: x["months_until_restock"]); the
\* sort is stable
sorted_by_months(list) ==
    IF list = << >> THEN << >>
    ELSE insert_by_months(sorted_by_months(SubSeq(list, 1, Len(list) - 1)), list[Len(list)])

get_all_locations_restock_schedule(max_months) ==
    LET keys == inventory_keys(inventory_data, 1, << >>)
        st == schedule_locations(keys, 1,
                  [all_locations_schedule |-> EmptyDict, urgent_restocks |-> << >>,
                   raised |-> FALSE],
                  max_months)
    IN  IF st.raised
        THEN [kind |-> "exception", error |-> "IndexError"]
        ELSE [kind |-> "schedule",
              total_locations |-> Cardinality(DOMAIN st.all_locations_schedule),
              projection_months |-> max_months,
              urgent_restocks |-> sorted_by_months(st.urgent_restocks),
              all_locations |-> st.all_locations_schedule]

----------------------------------------------------------------------------
(* Bounds and input sets *)

MaxEmployees == 2
MaxInventory == 1
MaxMonths == 3
MaxRecords == 2
MaxLocations == 2
MaxHorizon == 6
MaxOffsets == 14
MaxRuns == 2
MaxTasks == 2

TargetMonths == 1..12
TargetYears == {2025, 2026}

\* datetime.now(): the calendar month the calls are made in
Nows == {[month |-> 11, year |-> 2025]}

MonthValues == {PyNone, Num(3), Num(13), Digits(3), Digits(13), Str("abc")}
DateValues == {PyNone, DateStr(3, 1990), DateStr(7, 2026), Str("abc")}

\* employee records as the uploads store them, one set per spreadsheet layout
BirthdayRows ==
    {("Location" :> l) @@ ("Birth Month" :> m) @@ ("DOB" :> d) :
        l \in {Str("YIT"), Str("Indore-YASH IT Park-SC-DC")},
        m \in {PyNone, Num(3), Digits(13)}, d \in {PyNone, DateStr(3, 1990)}}
MonthOnlyRows ==
    {("Base Location Name" :> l) @@ ("MM Birth - WE Celebrate" :> m) :
        l \in {Str("YIT"), Str("B")}, m \in MonthValues}
MarriageRows ==
    {("Place of posting" :> l) @@ ("Date of Marriage" :> d) :
        l \in {PyNone, Str("YIT"), Str("B")}, d \in DateValues}
ServiceRows ==
    {("Location" :> l) @@ ("Service Month" :> m) @@ ("Date of Joining" :> d) :
        l \in {Str("YIT"), Str("B")},
        m \in {PyNone, Num(7), Str("abc")}, d \in {PyNone, DateStr(7, 2026)}}
DateRows ==
    {("Location" :> l) @@ ("DOB" :> b) @@ ("Marriage Date" :> m) @@ ("DOJ" :> j) :
        l \in {PyNone, Str("B")},
        b \in {PyNone, DateStr(3, 1990)}, m \in {PyNone, DateStr(3, 2026)},
        j \in {PyNone, DateStr(3, 2026)}}
NoLocationRows ==
    {("Employee" :> Str("E")) @@ ("DOB" :> d) : d \in {PyNone, DateStr(3, 1990)}}

Layouts == {BirthdayRows, MonthOnlyRows, MarriageRows, ServiceRows, DateRows, NoLocationRows}

\* every list of at most n rows of one layout
Lists(rows, n) == UNION {[1..k -> rows] : k \in 0..n}

NoCall == [op |-> "none", target_month |-> 0, target_year |-> 0, location |-> PyNone, gift_type |-> "", max_months |-> 0]
NoResult == [kind |-> "none"]

\* InventoryScheduler.__init__ (scheduler.py lines 15-18); _task is the
\* number of the loop task created last, 0 for None
NoScheduler == [_task |-> 0, _running |-> FALSE, _last_run_month |-> None]
\* no task or worker thread exists, nothing was logged
NoTasks == << >>
NoLog == << >>

----------------------------------------------------------------------------
(* The milestone counter called on stored employee records *)

InitCount ==
    /\ milestone_data \in UNION {Lists(rows, MaxEmployees) : rows \in Layouts}
    /\ inventory_data = << >>
    /\ now \in Nows
    /\ call = NoCall
    /\ result = NoResult
    /\ scheduler = NoScheduler
    /\ tasks = NoTasks
    /\ log = NoLog

CountMilestones(target_month, target_year) ==
    LET c == calculate_monthly_milestone_counts(milestone_data, target_month, target_year)
    IN  /\ call = NoCall
        /\ call' = [NoCall EXCEPT !.op = "calculate_monthly_milestone_counts",
                                  !.target_month = target_month,
                                  !.target_year = target_year]
        /\ result' = [kind |-> "counts", birthday_counts |-> c[1],
                      anniversary_counts |-> c[2], service_counts |-> c[3]]
        /\ UNCHANGED <<milestone_data, inventory_data, now, scheduler, tasks, log>>

\* the caller takes the returned value; nothing of the call is kept
Return ==
    /\ call # NoCall
    /\ call' = NoCall
    /\ result' = NoResult
    /\ UNCHANGED <<milestone_data, inventory_data, now, scheduler, tasks, log>>

NextCount ==
    \/ \E target_month \in TargetMonths, target_year \in TargetYears :
            CountMilestones(target_month, target_year)
    \/ Return

SpecCount == InitCount /\ [][NextCount]_vars

----------------------------------------------------------------------------
(* The depletion simulator called on stored employee and inventory records *)

\* employee records of several uploads: a location and one milestone date
SimRows ==
    {("Location" :> c[1]) @@ (c[2] :> DateStr(c[3], 2020)) :
        c \in {<<Str("YIT"), "DOB", 11>>, <<Str("YIT"), "DOB", 12>>,
               <<Str("YIT"), "Date of Marriage", 11>>, <<Str("YIT"), "DOJ", 12>>,
               <<Str("B"), "DOB", 11>>}}

\* inventory rows as get_inventory_data returns them
SimItems ==
    {[location |-> Str("YIT"), workbook |-> c[1], data |-> ("Quantity Received" :> Num(c[2]))] :
        c \in {<<"Birthday", 40>>, <<"Birthday", 41>>, <<"Service Completion", 40>>}}

SimLocations == {Str("YIT"), Str("B"), Str("  ")}
GiftTypes == {"birthday", "anniversary", "service_completion"}
SimGiftTypes == GiftTypes \cup {"welcome_kit"}

Init ==
    /\ milestone_data \in Lists(SimRows, MaxEmployees)
    /\ inventory_data \in Lists(SimItems, MaxInventory)
    /\ now \in Nows
    /\ call = NoCall
    /\ result = NoResult
    /\ scheduler = NoScheduler
    /\ tasks = NoTasks
    /\ log = NoLog

CalculateMonthsUntilRestock(location, gift_type, max_months) ==
    /\ call = NoCall
    /\ call' = [NoCall EXCEPT !.op = "calculate_months_until_restock",
                              !.location = location,
                              !.gift_type = gift_type,
                              !.max_months = max_months]
    /\ result' = calculate_months_until_restock(location, gift_type, max_months)
    /\ UNCHANGED <<milestone_data, inventory_data, now, scheduler, tasks, log>>

Next ==
    \/ \E location \in SimLocations, gift_type \in SimGiftTypes, max_months \in 0..MaxMonths :
            CalculateMonthsUntilRestock(location, gift_type, max_months)
    \/ Return

Spec == Init /\ [][Next]_vars

----------------------------------------------------------------------------
(* The inventory reader and the location normalizer called on stored
   inventory records *)

\* inventory rows as get_inventory_data returns them: location and workbook
\* are stored non-blank, data is the row's cells by header
InvItems ==
    {[location |-> Str(c[1]), workbook |-> c[2], data |-> (c[3] :> c[4])] :
        c \in {<<"YIT", "Birthday", "Quantity Received", Num(5)>>,
               <<"Indore-YASH IT Park-SC-DC", "Birthday", "QUANTITY RECEIVED", Digits(7)>>,
               <<"CIT", "BIRTHDAY GIFTS", "Received Quantity", Num(2)>>,
               <<"yit", "Birthday", "Quantity Received", Num(1)>>,
               <<"YIT", "As on 03-10-25", "Quantity Received", Num(3)>>,
               <<"YIT", "Anniversary Gifts", "Quantity Received", Num(4)>>,
               <<"YIT", "Service as on 03-10-25", "Quantity Received", Num(2)>>,
               <<"B", "Service Completion", "Quantity Received", Num(6)>>,
               <<"B", "Birthday Service", "Quantity Received", Num(1)>>,
               <<"B", "Welcome Kit", "Quantity Received", Num(9)>>,
               <<"YIT", "Birthday", "Quantity Received", Str("abc")>>,
               <<"B", "Birthday", "Quantity Received", PyNone>>,
               <<"B", "Service Completion", "Item", Str("Mug")>>,
               <<"Unknown", "Birthday", "Quantity Received", Num(8)>>}}

\* the location argument of get_current_inventory_by_location
InvFilters ==
    {PyNone, Str(""), Str("  "), Str("YIT"), Str(" YIT "), Str("B"), Str("Pune")}

\* the canonical names of the alias table
CanonicalNames == {LOCATION_ALIASES[a] : a \in DOMAIN LOCATION_ALIASES}

\* the argument of normalize_location
NormInputs ==
    {PyNone, Str(""), Str("  "), Str(" YIT "), Str("yit"), Str("B"), Str("Unknown")}
    \cup {Str(a) : a \in DOMAIN LOCATION_ALIASES}
    \cup {Str(c) : c \in CanonicalNames}

InitInventory ==
    /\ milestone_data = << >>
    /\ inventory_data \in Lists(InvItems, MaxRecords)
    /\ now \in Nows
    /\ call = NoCall
    /\ result = NoResult
    /\ scheduler = NoScheduler
    /\ tasks = NoTasks
    /\ log = NoLog

GetCurrentInventoryByLocation(location) ==
    /\ call = NoCall
    /\ call' = [NoCall EXCEPT !.op = "get_current_inventory_by_location",
                              !.location = location]
    /\ result' = [kind |-> "inventory",
                  inventory |-> get_current_inventory_by_location(location)]
    /\ UNCHANGED <<milestone_data, inventory_data, now, scheduler, tasks, log>>

NormalizeLocation(location_name) ==
    /\ call = NoCall
    /\ call' = [NoCall EXCEPT !.op = "normalize_location",
                              !.location = location_name]
    /\ result' = [kind |-> "location", value |-> normalize_location(location_name)]
    /\ UNCHANGED <<milestone_data, inventory_data, now, scheduler, tasks, log>>

NextInventory ==
    \/ \E location \in InvFilters : GetCurrentInventoryByLocation(location)
    \/ \E location_name \in NormInputs : NormalizeLocation(location_name)
    \/ Return

SpecInventory == InitInventory /\ [][NextInventory]_vars

----------------------------------------------------------------------------
(* The location report and the restock schedule called on stored employee
   and inventory records *)

\* employee records of several uploads: a location and one milestone date
ReportRows ==
    {("Location" :> Str(c[1])) @@ (c[2] :> DateStr(c[3], 2020)) :
        c \in {<<"YIT", "DOB", 1>>, <<"YIT", "Date of Marriage", 12>>,
               <<"B", "DOB", 3>>, <<"B", "DOJ", 11>>}}

\* the locations inventory is stored for, the first MaxLocations of them
ReportLocations == <<"YIT", "B", "Pune">>

\* one stored inventory row
StockItem(location, workbook, quantity) ==
    [location |-> Str(location), workbook |-> workbook,
     data |-> ("Quantity Received" :> Num(quantity))]

\* the inventory rows a location may have: none, one workbook only, or a
\* row at the threshold for each of the three workbooks
StockOf(location) ==
    {<< >>,
     <<StockItem(location, "Birthday", 40)>>,
     <<StockItem(location, "Birthday", 40),
       StockItem(location, "As on 03-10-25", 40),
       StockItem(location, "Service Completion", 40)>>}

RECURSIVE Stocks(_)
\* the stored inventory of the first n locations
Stocks(n) ==
    IF n = 0 THEN {<< >>}
    ELSE {rest \o own : rest \in Stocks(n - 1), own \in StockOf(ReportLocations[n])}

InitReport ==
    /\ milestone_data \in Lists(ReportRows, MaxEmployees)
    /\ inventory_data \in Stocks(MaxLocations)
    /\ now \in Nows
    /\ call = NoCall
    /\ result = NoResult
    /\ scheduler = NoScheduler
    /\ tasks = NoTasks
    /\ log = NoLog

GetLocationInventoryProjection(location, months_ahead) ==
    /\ call = NoCall
    /\ call' = [NoCall EXCEPT !.op = "get_location_inventory_projection",
                              !.location = location,
                              !.max_months = months_ahead]
    /\ result' = get_location_inventory_projection(location, months_ahead)
    /\ UNCHANGED <<milestone_data, inventory_data, now, scheduler, tasks, log>>

GetAllLocationsRestockSchedule(max_months) ==
    /\ call = NoCall
    /\ call' = [NoCall EXCEPT !.op = "get_all_locations_restock_schedule",
                              !.max_months = max_months]
    /\ result' = get_all_locations_restock_schedule(max_months)
    /\ UNCHANGED <<milestone_data, inventory_data, now, scheduler, tasks, log>>

NextReport ==
    \/ \E location \in SimLocations, months_ahead \in 0..MaxHorizon :
            GetLocationInventoryProjection(location, months_ahead)
    \/ \E max_months \in 0..MaxHorizon : GetAllLocationsRestockSchedule(max_months)
    \/ Return

SpecReport == InitReport /\ [][NextReport]_vars

----------------------------------------------------------------------------
(* The depletion simulator called in every month of the calendar *)

\* datetime.now() of the call: any month of two successive years
CalendarNows == {[month |-> m, year |-> yy] : m \in 1..12, yy \in {2025, 2026}}

\* a stock that no usage lowers, so that the ledger covers the whole horizon
CalendarItems == <<StockItem("YIT", "Birthday", 40)>>

InitCalendar ==
    /\ milestone_data = << >>
    /\ inventory_data = CalendarItems
    /\ now \in CalendarNows
    /\ call = NoCall
    /\ result = NoResult
    /\ scheduler = NoScheduler
    /\ tasks = NoTasks
    /\ log = NoLog

NextCalendar ==
    \/ \E max_months \in 0..MaxOffsets :
            CalculateMonthsUntilRestock(Str("YIT"), "birthday", max_months)
    \/ Return

SpecCalendar == InitCalendar /\ [][NextCalendar]_vars

----------------------------------------------------------------------------
(* inventory_processor.py: calculate_milestone_counts *)

\* config/settings.py: the workbook label of the inventory of a gift type
INVENTORY_WORKBOOKS ==
    [birthday |-> "Birthday",
     anniversary |-> "As on 03-10-25",
     service_completion |-> "Service Completion"]

\* extract_month_from_date of inventory_processor.py: a number is taken
\* as it is, every string goes to dateutil, where a bare number up to 31
\* is a day of the current month
processor_extract_month_from_date(date_value) ==
    IF falsy(date_value) \/ isna(date_value) THEN None
    ELSE IF date_value.t = "num" THEN Some(date_value.n)
    ELSE IF date_value.t = "str" /\ strip(date_value.s) \in {"nan", "nat", "none", ""}
         THEN None
    ELSE IF date_value.t = "digits" /\ date_value.n \in 1..12 THEN Some(now.month)
    ELSE parse_month(date_value)

\* counts[location] = counts.get(location, 0) + 1 on a dict kept in its
\* insertion order, as a sequence of <<location, count>>
ordered_increment(counts, location) ==
    IF \E i \in 1..Len(counts) : counts[i][1] = location
    THEN [i \in 1..Len(counts) |->
            IF counts[i][1] = location THEN <<location, counts[i][2] + 1>> ELSE counts[i]]
    ELSE Append(counts, <<location, 1>>)

\* location of one row: replaced by "Unknown" when missing, stripped, and
\* not mapped through the aliases
processor_row_location(row, location_col) ==
    LET location == row_get(row, location_col)
        location1 == IF falsy(location) \/ isna(location) THEN Str("Unknown") ELSE location
    IN  strip(str(location1))

\* if month_col and month_col in row: ... elif date_col and date_col in row: ...
\* (anniversaries have no month column: month_col = NoCol)
processor_count(counts, row, columns, month_col, date_col, location, target_month) ==
    IF col_in_row(month_col, columns)
    THEN IF processor_extract_month_from_date(row_get(row, month_col)) = Some(target_month)
         THEN ordered_increment(counts, location) ELSE counts
    ELSE IF col_in_row(date_col, columns)
    THEN IF processor_extract_month_from_date(row_get(row, date_col)) = Some(target_month)
         THEN ordered_increment(counts, location) ELSE counts
    ELSE counts

\* the body of the loop for one row; c = <<birthday, anniversary, service>>
processor_count_row(c, row, columns, cols, target_month) ==
    LET location == processor_row_location(row, cols.location_col)
    IN  << processor_count(c[1], row, columns, cols.dob_month_col, cols.dob_col,
                           location, target_month),
           processor_count(c[2], row, columns, NoCol, cols.dom_col,
                           location, target_month),
           processor_count(c[3], row, columns, cols.doj_month_col, cols.doj_col,
                           location, target_month) >>

RECURSIVE processor_count_rows(_, _, _, _, _, _)
\* for idx, row in df.iterrows(), from row i on
processor_count_rows(data, i, c, columns, cols, target_month) ==
    IF i > Len(data) THEN c
    ELSE processor_count_rows(data, i + 1,
                              processor_count_row(c, data[i], columns, cols, target_month),
                              columns, cols, target_month)

\* returns <<birthday_counts, anniversary_counts, service_counts>>
calculate_milestone_counts(data, target_month, target_year) ==
    LET columns == df_columns(data)
        cols == find_cols(columns)
    IN  IF cols.location_col = NoCol
        THEN << << >>, << >>, << >> >>
        ELSE processor_count_rows(data, 1, << << >>, << >>, << >> >>,
                                  columns, cols, target_month)

----------------------------------------------------------------------------
(* db.py: update_inventory_quantity *)

\* SELECT id, data FROM inventory_data WHERE location = %s AND workbook = %s
\* ORDER BY id DESC LIMIT 1: the position of the row in the rows, which are
\* kept in descending order of id; 0 when there is none
select_inventory_row(rows, location, workbook) ==
    LET matching == {i \in 1..Len(rows) :
                        rows[i].location = Str(location) /\ rows[i].workbook = workbook}
    IN  IF matching = {} THEN 0
        ELSE CHOOSE i \in matching : \A j \in matching : i <= j

\* the first key with "quantity" and "received" in its lower case, or NoCol
db_find_quantity_col(data) ==
    IF \E key \in DOMAIN data : is_quantity_key(key)
    THEN CHOOSE key \in DOMAIN data : is_quantity_key(key)
    ELSE NoCol

\* int(data.get(quantity_col, 0)) if data.get(quantity_col) else 0;
\* None when int() raises
db_current_qty(v) ==
    IF falsy(v) THEN Some(0)
    ELSE IF v.t \in {"num", "digits"} THEN Some(v.n)
    ELSE None

\* new_qty = max(0, current_qty + quantity_change)
new_quantity(current_qty, quantity_change) ==
    IF current_qty + quantity_change < 0 THEN 0 ELSE current_qty + quantity_change

\* the data the UPDATE statement writes, computed from the data read
updated_data(data, quantity_change) ==
    LET quantity_col == db_find_quantity_col(data)
    IN  IF quantity_col = NoCol THEN [kind |-> "none"]
        ELSE LET current_qty == db_current_qty(data[quantity_col])
             IN  IF current_qty = None THEN [kind |-> "raise"]
                 ELSE [kind |-> "updated",
                       data |-> (quantity_col :> Num(new_quantity(current_qty[1], quantity_change))) @@ data,
                       old_quantity |-> current_qty[1],
                       new_quantity |-> new_quantity(current_qty[1], quantity_change)]

\* one call running alone: the row is read, changed and committed
update_inventory_quantity(rows, location, workbook, quantity_change) ==
    LET i == select_inventory_row(rows, location, workbook)
    IN  IF i = 0 THEN [kind |-> "none", rows |-> rows]
        ELSE LET u == updated_data(rows[i].data, quantity_change)
             IN  IF u.kind = "updated"
                 THEN [kind |-> "updated",
                       rows |-> [rows EXCEPT ![i].data = u.data],
                       value |-> [location |-> location, workbook |-> workbook,
                                  old_quantity |-> u.old_quantity,
                                  new_quantity |-> u.new_quantity]]
                 ELSE [kind |-> u.kind, rows |-> rows]

----------------------------------------------------------------------------
(* inventory_processor.py: process_milestone_updates *)

RECURSIVE apply_updates(_, _, _, _)
\* for location, count in counts.items(): if count > 0: the updates of one
\* gift type from entry i on; st = [kind, rows, results], and an
\* exception of an update ends the run
apply_updates(st, counts, i, workbook) ==
    IF i > Len(counts) \/ st.kind = "raise" THEN st
    ELSE IF counts[i][2] <= 0 THEN apply_updates(st, counts, i + 1, workbook)
    ELSE apply_updates(
             CHOOSE next \in
                 {CASE r.kind = "updated" ->
                          [kind |-> "ok", rows |-> r.rows,
                           results |-> Append(st.results, r.value)]
                    [] r.kind = "raise" -> [st EXCEPT !.kind = "raise"]
                    [] OTHER -> st :
                  r \in {update_inventory_quantity(st.rows, counts[i][1], workbook,
                                                   0 - counts[i][2])}} : TRUE,
             counts, i + 1, workbook)

\* returns the stored inventory rows after the run and the returned dict
\* (the fields the properties read); an argument of 0 stands for None
process_milestone_updates(rows, data, target_month_arg, target_year_arg) ==
    LET target_month == IF target_month_arg = 0 THEN now.month ELSE target_month_arg
        target_year == IF target_year_arg = 0 THEN now.year ELSE target_year_arg
    IN  IF Len(data) = 0
        THEN [rows |-> rows, month |-> target_month, year |-> target_year,
              value |-> [status |-> "no_data"]]
        ELSE LET c == calculate_milestone_counts(data, target_month, target_year)
                 b == apply_updates([kind |-> "ok", rows |-> rows, results |-> << >>],
                                    c[1], 1, INVENTORY_WORKBOOKS.birthday)
                 a == apply_updates([b EXCEPT !.results = << >>],
                                    c[2], 1, INVENTORY_WORKBOOKS.anniversary)
                 s == apply_updates([a EXCEPT !.results = << >>],
                                    c[3], 1, INVENTORY_WORKBOOKS.service_completion)
             IN  [rows |-> s.rows, month |-> target_month, year |-> target_year,
                  value |-> IF s.kind = "raise"
                            THEN [status |-> "exception"]
                            ELSE [status |-> "success",
                                  birthday_counts |-> c[1],
                                  anniversary_counts |-> c[2],
                                  service_counts |-> c[3],
                                  update_results |->
                                      [birthday |-> b.results,
                                       anniversary |-> a.results,
                                       service_completion |-> s.results]]]

----------------------------------------------------------------------------
(* The monthly inventory update run on stored records, one run at a time *)

\* employee records with a birth month or a date of marriage
UpdateRows ==
    {("Location" :> Str(l)) @@ ("Birth Month" :> Num(m)) : l \in {"YIT", "B"}, m \in {11, 12}}
    \cup {("Location" :> Str("YIT")) @@ ("Date of Marriage" :> DateStr(11, 2020))}

\* stored inventory: a birthday stock, a birthday and an anniversary stock,
\* and a stock whose quantity is no number
UpdateStocks ==
    {<<StockItem("YIT", "Birthday", 3)>>,
     <<StockItem("YIT", "Birthday", 1), StockItem("YIT", "As on 03-10-25", 40)>>,
     <<[location |-> Str("YIT"), workbook |-> "Birthday",
        data |-> ("Quantity Received" :> Str("B"))]>>}

\* (target_month, target_year) of a run; 0 for an argument left out
UpdateArgs == {<<0, 0>>, <<11, 2025>>, <<12, 2025>>}

InitUpdate ==
    /\ milestone_data \in Lists(UpdateRows, MaxEmployees)
    /\ inventory_data \in UpdateStocks
    /\ now \in Nows
    /\ call = NoCall
    /\ result = NoResult
    /\ scheduler = NoScheduler
    /\ tasks = NoTasks
    /\ log = NoLog

\* check_and_update_inventory -> process_milestone_updates; the log keeps
\* the line "Processing for: month/year" of every run
ProcessMilestoneUpdates(target_month, target_year) ==
    /\ call = NoCall
    /\ Len(log) < MaxRuns
    /\ \E r \in {process_milestone_updates(inventory_data, milestone_data,
                                           target_month, target_year)} :
          /\ call' = [NoCall EXCEPT !.op = "process_milestone_updates",
                                    !.target_month = target_month,
                                    !.target_year = target_year]
          /\ result' = [kind |-> "processed", value |-> r.value]
          /\ inventory_data' = r.rows
          /\ log' = Append(log, [line |-> "Processing for", month |-> r.month, year |-> r.year])
    /\ UNCHANGED <<milestone_data, now, scheduler, tasks>>

NextUpdate ==
    \/ \E args \in UpdateArgs : ProcessMilestoneUpdates(args[1], args[2])
    \/ Return

SpecUpdate == InitUpdate /\ [][NextUpdate]_vars

----------------------------------------------------------------------------
(* db.py: update_inventory_quantity run by two worker threads at once.     *)
(* Each call has its own connection and transaction: its SELECT reads the  *)
(* committed rows, its UPDATE waits while another transaction holds an     *)
(* uncommitted UPDATE of the same row, and its commit stores what it wrote. *)

Callers == {1, 2}

IdleCaller ==
    [pc |-> "idle", location |-> "", workbook |-> "", quantity_change |-> 0,
     row |-> 0, data |-> EmptyDict, written |-> [kind |-> "none"], value |-> "none"]

ConcurrentStocks ==
    {<<StockItem("YIT", "Birthday", 1)>>,
     <<StockItem("YIT", "Birthday", 5)>>,
     <<StockItem("YIT", "Birthday", 5), StockItem("B", "Birthday", 5)>>}

QuantityChanges == {0 - 2, 0 - 1, 1}

InitConcurrentUpdate ==
    /\ milestone_data = << >>
    /\ inventory_data \in ConcurrentStocks
    /\ now \in Nows
    /\ call = NoCall
    /\ result = NoResult
    /\ scheduler = NoScheduler
    /\ tasks = [c \in Callers |-> IdleCaller]
    /\ log = NoLog

\* async_update_inventory_quantity: asyncio.to_thread starts the call
CallUpdate(c, location, workbook, quantity_change) ==
    /\ tasks[c].pc = "idle"
    /\ tasks' = [tasks EXCEPT ![c] = [IdleCaller EXCEPT !.pc = "select",
                                                       !.location = location,
                                                       !.workbook = workbook,
                                                       !.quantity_change = quantity_change]]
    /\ UNCHANGED <<milestone_data, inventory_data, now, call, result, scheduler, log>>

\* cur.execute(SELECT ...); row = cur.fetchone(); `if not row: return None`
SelectRow(c) ==
    /\ tasks[c].pc = "select"
    /\ \E i \in {select_inventory_row(inventory_data, tasks[c].location, tasks[c].workbook)} :
          tasks' = [tasks EXCEPT ![c] =
                       IF i = 0
                       THEN [@ EXCEPT !.pc = "done", !.value = "None"]
                       ELSE [@ EXCEPT !.pc = "update", !.row = i,
                                      !.data = inventory_data[i].data]]
    /\ UNCHANGED <<milestone_data, inventory_data, now, call, result, scheduler, log>>

\* another transaction has updated the row and has not committed yet
RowLocked(c) ==
    \E other \in Callers \ {c} :
        tasks[other].pc = "commit" /\ tasks[other].row = tasks[c].row

\* the new quantity is computed from the data that was read, and
\* cur.execute(UPDATE ... WHERE id = %s) writes it
UpdateRow(c) ==
    /\ tasks[c].pc = "update"
    /\ \E u \in {updated_data(tasks[c].data, tasks[c].quantity_change)} :
          IF u.kind = "updated"
          THEN /\ ~RowLocked(c)
               /\ tasks' = [tasks EXCEPT ![c] = [@ EXCEPT !.pc = "commit", !.written = u]]
          ELSE tasks' = [tasks EXCEPT ![c] =
                            [@ EXCEPT !.pc = "done",
                                      !.value = IF u.kind = "raise" THEN "raise" ELSE "None"]]
    /\ UNCHANGED <<milestone_data, inventory_data, now, call, result, scheduler, log>>

\* conn.commit(), the log line "Updated workbook at location: old -> new"
\* and the returned dict
Commit(c) ==
    /\ tasks[c].pc = "commit"
    /\ inventory_data' = [inventory_data EXCEPT ![tasks[c].row].data = tasks[c].written.data]
    /\ log' = Append(log, [line |-> "Updated", location |-> tasks[c].location,
                           workbook |-> tasks[c].workbook,
                           old_quantity |-> tasks[c].written.old_quantity,
                           new_quantity |-> tasks[c].written.new_quantity])
    /\ tasks' = [tasks EXCEPT ![c] = [@ EXCEPT !.pc = "done", !.value = "updated"]]
    /\ UNCHANGED <<milestone_data, now, call, result, scheduler>>

NextConcurrentUpdate ==
    \/ \E c \in Callers, location \in {"YIT", "B"}, quantity_change \in QuantityChanges :
            CallUpdate(c, location, "Birthday", quantity_change)
    \/ \E c \in Callers : SelectRow(c)
    \/ \E c \in Callers : UpdateRow(c)
    \/ \E c \in Callers : Commit(c)

SpecConcurrentUpdate == InitConcurrentUpdate /\ [][NextConcurrentUpdate]_vars

----------------------------------------------------------------------------
(* The projection entry points called by two callers at once.  A call      *)
(* awaits the rows of the database and computes its value from them; the   *)
(* other caller may begin, complete or return a call in between.           *)

\* variant: reading the rows removes the last of them
stored_after_read_popped(rows) == SubSeq(rows, 1, Len(rows) - 1)

\* the stored rows after get_milestone_data or get_inventory_data: both
\* run one SELECT and close the connection
stored_after_read(rows) == rows

IdleReader == [pc |-> "idle", call |-> NoCall, value |-> NoResult]

\* the calls a caller may issue, one or two per entry point
ReadCalls ==
    {[NoCall EXCEPT !.op = "calculate_monthly_milestone_counts",
                    !.target_month = 11, !.target_year = 2025],
     [NoCall EXCEPT !.op = "get_current_inventory_by_location", !.location = Str("YIT")],
     [NoCall EXCEPT !.op = "get_current_inventory_by_location"],
     [NoCall EXCEPT !.op = "calculate_months_until_restock", !.location = Str("YIT"),
                    !.gift_type = "birthday", !.max_months = 3],
     [NoCall EXCEPT !.op = "get_location_inventory_projection", !.location = Str("YIT"),
                    !.max_months = 3],
     [NoCall EXCEPT !.op = "get_all_locations_restock_schedule", !.max_months = 3]}

\* the value an entry point returns for the stored rows
entry_point_value(c) ==
    CASE c.op = "calculate_monthly_milestone_counts" ->
            [kind |-> "counts",
             counts |-> calculate_monthly_milestone_counts(milestone_data,
                                                           c.target_month, c.target_year)]
      [] c.op = "get_current_inventory_by_location" ->
            [kind |-> "inventory",
             inventory |-> get_current_inventory_by_location(c.location)]
      [] c.op = "calculate_months_until_restock" ->
            calculate_months_until_restock(c.location, c.gift_type, c.max_months)
      [] c.op = "get_location_inventory_projection" ->
            get_location_inventory_projection(c.location, c.max_months)
      [] c.op = "get_all_locations_restock_schedule" ->
            get_all_locations_restock_schedule(c.max_months)

InitReadOnly ==
    /\ milestone_data \in Lists(ReportRows, 1)
    /\ inventory_data \in StockOf("YIT")
    /\ now \in Nows
    /\ call = NoCall
    /\ result = NoResult
    /\ scheduler = NoScheduler
    /\ tasks = [c \in Callers |-> IdleReader]
    /\ log = NoLog

\* the coroutine is started and suspends at its first await
BeginCall(c, read_call) ==
    /\ tasks[c].pc = "idle"
    /\ tasks' = [tasks EXCEPT ![c] = [IdleReader EXCEPT !.pc = "awaiting", !.call = read_call]]
    /\ UNCHANGED <<milestone_data, inventory_data, now, call, result, scheduler, log>>

\* the rows arrive and the call runs to its return statement
CompleteCall(c) ==
    /\ tasks[c].pc = "awaiting"
    /\ tasks' = [tasks EXCEPT ![c] = [@ EXCEPT !.pc = "done",
                                               !.value = entry_point_value(tasks[c].call)]]
    /\ milestone_data' = stored_after_read(milestone_data)
    /\ inventory_data' = stored_after_read(inventory_data)
    /\ UNCHANGED <<now, call, result, scheduler, log>>

\* the caller takes the value; nothing of the call is kept
ReturnCall(c) ==
    /\ tasks[c].pc = "done"
    /\ tasks' = [tasks EXCEPT ![c] = IdleReader]
    /\ UNCHANGED <<milestone_data, inventory_data, now, call, result, scheduler, log>>

NextReadOnly ==
    \/ \E c \in Callers, read_call \in ReadCalls : BeginCall(c, read_call)
    \/ \E c \in Callers : CompleteCall(c)
    \/ \E c \in Callers : ReturnCall(c)

SpecReadOnly == InitReadOnly /\ [][NextReadOnly]_vars

----------------------------------------------------------------------------
(* scheduler.py: InventoryScheduler.  The clock is datetime.now() by the   *)
(* hour; a month is cut down to LastDay days and a day to LastHour + 1     *)
(* hours, the last of each standing for all the later ones.  A loop task   *)
(* is an asyncio task: it runs from one await to the next without          *)
(* interruption, and task.cancel() raises CancelledError in it at the      *)
(* await where it is suspended.                                            *)

LastDay == 2
LastHour == 2
FirstMonth == [year |-> 2025, month |-> 11]
LastMonth == [year |-> 2026, month |-> 1]

\* the hours of the first month, in any of which the process may start
SchedulerNows ==
    {[year |-> FirstMonth.year, month |-> FirstMonth.month, day |-> d, hour |-> h] :
        d \in 1..LastDay, h \in 0..LastHour}

\* the clock one hour later
next_hour(t) ==
    IF t.hour < LastHour THEN [t EXCEPT !.hour = t.hour + 1]
    ELSE IF t.day < LastDay THEN [t EXCEPT !.hour = 0, !.day = t.day + 1]
    ELSE IF t.month < 12 THEN [t EXCEPT !.hour = 0, !.day = 1, !.month = t.month + 1]
    ELSE [t EXCEPT !.hour = 0, !.day = 1, !.month = 1, !.year = t.year + 1]

\* the last hour of the months the clock runs through
last_hour ==
    [year |-> LastMonth.year, month |-> LastMonth.month, day |-> LastDay, hour |-> LastHour]

\* the number of the clock hour
hour_index(t) ==
    (((t.year * 12 + (t.month - 1)) * LastDay + (t.day - 1)) * (LastHour + 1)) + t.hour

\* employee records with a birthday in November and in December, and the
\* birthday stock of their location
SchedulerRows ==
    << ("Location" :> Str("YIT")) @@ ("Birth Month" :> Num(11)),
       ("Location" :> Str("YIT")) @@ ("Birth Month" :> Num(12)) >>

SchedulerStock == <<StockItem("YIT", "Birthday", 5)>>

\* a loop task that asyncio.create_task has just created
NewTask ==
    [pc |-> "created", cancelled |-> FALSE, current_month |-> 0, current_year |-> 0,
     wake |-> 0]

InitScheduler ==
    /\ milestone_data = SchedulerRows
    /\ inventory_data = SchedulerStock
    /\ now \in SchedulerNows
    /\ call = NoCall
    /\ result = NoResult
    /\ scheduler = NoScheduler
    /\ tasks = NoTasks
    /\ log = NoLog

\* start(): returns at once when already running, else sets the flag and
\* creates a new loop task
Start ==
    /\ Len(tasks) < MaxTasks
    /\ ~scheduler._running
    /\ scheduler' = [scheduler EXCEPT !._running = TRUE, !._task = Len(tasks) + 1]
    /\ tasks' = Append(tasks, NewTask)
    /\ UNCHANGED <<milestone_data, inventory_data, now, call, result, log>>

\* stop(): returns at once when not running, else the flag is cleared and the task
\* created last is cancelled (cancel() of a finished task does nothing)
Stop ==
    /\ scheduler._running
    /\ scheduler' = [scheduler EXCEPT !._running = FALSE]
    /\ tasks' = IF scheduler._task # 0 /\ tasks[scheduler._task].pc # "done"
                THEN [tasks EXCEPT ![scheduler._task].cancelled = TRUE]
                ELSE tasks
    /\ UNCHANGED <<milestone_data, inventory_data, now, call, result, log>>

\* the test of lines 66-68
update_is_due(t, last_run_month) ==
    t.day = 1 /\ t.hour = 0 /\ last_run_month # Some(t.month)

\* one pass of the loop from `while self._running` to its next await: a
\* new task, or one whose sleep of 3600 seconds has ended, leaves the loop
\* when the flag is cleared, starts the update when it is due (logging
\* "Triggering monthly inventory update"), and sleeps otherwise
Check(t) ==
    /\ tasks[t].pc \in {"created", "sleeping"}
    /\ ~tasks[t].cancelled
    /\ tasks[t].pc = "sleeping" => hour_index(now) >= tasks[t].wake
    /\ IF ~scheduler._running
       THEN /\ tasks' = [tasks EXCEPT ![t].pc = "done"]
            /\ log' = log
       ELSE IF update_is_due(now, scheduler._last_run_month)
       THEN /\ tasks' = [tasks EXCEPT ![t].pc = "updating",
                                      ![t].current_month = now.month,
                                      ![t].current_year = now.year]
            /\ log' = Append(log, [line |-> "Triggering monthly inventory update",
                                   month |-> now.month, year |-> now.year])
       ELSE /\ tasks' = [tasks EXCEPT ![t].pc = "sleeping",
                                      ![t].wake = hour_index(now) + 1]
            /\ log' = log
    /\ UNCHANGED <<milestone_data, inventory_data, now, call, result, scheduler>>

\* the stored inventory after the update that task t has started:
\* check_and_update_inventory() processes the month of datetime.now(),
\* which is the month of the check, as no hour passes during an update
rows_after_update(t) ==
    process_milestone_updates(inventory_data, milestone_data,
                              tasks[t].current_month, tasks[t].current_year).rows

\* the worker threads of the update commit its changes of the inventory
ApplyUpdate(t) ==
    /\ tasks[t].pc = "updating"
    /\ inventory_data' = rows_after_update(t)
    /\ tasks' = [tasks EXCEPT ![t].pc = "updated"]
    /\ UNCHANGED <<milestone_data, now, call, result, scheduler, log>>

\* run_monthly_inventory_update returns: the month is recorded (line 74)
\* and the task sleeps
FinishUpdate(t) ==
    /\ tasks[t].pc = "updated"
    /\ ~tasks[t].cancelled
    /\ scheduler' = [scheduler EXCEPT !._last_run_month = Some(tasks[t].current_month)]
    /\ tasks' = [tasks EXCEPT ![t].pc = "sleeping", ![t].wake = hour_index(now) + 1]
    /\ UNCHANGED <<milestone_data, inventory_data, now, call, result, log>>

\* CancelledError reaches the task: a task that never ran is dropped, and
\* in the loop `except asyncio.CancelledError: break` ends it.  Raised
\* within the update it passes the `except Exception` handlers and line 74
\* is not reached, whether the changes were committed before or not
Cancelled(t) ==
    /\ tasks[t].pc # "done"
    /\ tasks[t].cancelled
    /\ tasks' = [tasks EXCEPT ![t].pc = "done"]
    /\ UNCHANGED <<milestone_data, inventory_data, now, call, result, scheduler, log>>

\* an hour passes while every task sleeps.  A new task, a cancelled one and
\* an update run within the hour; a sleep of 3600 seconds ends 3600
\* seconds later or later, so the task runs in the next clock hour or in
\* the one after it
Tick ==
    /\ hour_index(now) < hour_index(last_hour)
    /\ \A t \in 1..Len(tasks) :
          /\ tasks[t].pc \in {"sleeping", "done"}
          /\ tasks[t].cancelled => tasks[t].pc = "done"
          /\ tasks[t].pc = "sleeping" => hour_index(now) <= tasks[t].wake
    /\ now' = next_hour(now)
    /\ UNCHANGED <<milestone_data, inventory_data, call, result, scheduler, tasks, log>>

NextScheduler ==
    \/ Start
    \/ Stop
    \/ \E t \in 1..Len(tasks) : Check(t)
    \/ \E t \in 1..Len(tasks) : ApplyUpdate(t)
    \/ \E t \in 1..Len(tasks) : FinishUpdate(t)
    \/ \E t \in 1..Len(tasks) : Cancelled(t)
    \/ Tick

SpecScheduler == InitScheduler /\ [][NextScheduler]_vars

\* the event loop runs every task that can run, and time passes; an update
\* in progress holds the clock, so no condition is put on its commit
SpecSchedulerLive ==
    /\ SpecScheduler
    /\ WF_vars(Tick)
    /\ \A t \in 1..MaxTasks :
          /\ WF_vars(t <= Len(tasks) /\ Check(t))
          /\ WF_vars(t <= Len(tasks) /\ FinishUpdate(t))
          /\ WF_vars(t <= Len(tasks) /\ Cancelled(t))

----------------------------------------------------------------------------
(* Reference quantities for the properties of the simulator *)

IsSimCall == call.op = "calculate_months_until_restock"
IsProjection == IsSimCall /\ result.kind = "projection"

\* the stored inventory rows of the location the call names
ItemsOfCalledLocation ==
    {i \in 1..Len(inventory_data) :
        normalize_location(inventory_data[i].location) = normalize_location(call.location)}

\* usage of the called location and gift type in the month at an offset
UsageAt(offset) ==
    LET target == target_of(now.month, now.year, offset)
    IN  usage_of(call.gift_type,
                 calculate_monthly_milestone_counts(milestone_data, target.month, target.year),
                 normalize_location(call.location))

RECURSIVE UsageThrough(_)
\* cumulative usage of offsets 0..offset
UsageThrough(offset) ==
    IF offset < 0 THEN 0 ELSE UsageAt(offset) + UsageThrough(offset - 1)

\* current_stock minus the cumulative usage of offsets 0..offset
StockAfter(offset) == result.current_stock - UsageThrough(offset)

\* the offsets of the horizon at which the stock is strictly below the threshold
Breaches == {k \in 0..(call.max_months - 1) : StockAfter(k) < LOW_INVENTORY_THRESHOLD}

Least(S) == CHOOSE k \in S : \A j \in S : k <= j

RECURSIVE LedgerUsage(_, _)
\* sum of the usage values of the first i ledger entries
LedgerUsage(ledger, i) ==
    IF i = 0 THEN 0 ELSE ledger[i].usage + LedgerUsage(ledger, i - 1)

----------------------------------------------------------------------------
(* Properties of calculate_months_until_restock *)

\* C1: a call for a location no stored inventory row belongs to returns an
\* error result carrying the normalized location, never a projection.
C1_UnknownLocationIsError ==
    (IsSimCall /\ result.kind # "exception" /\ ItemsOfCalledLocation = {})
        => /\ result.kind = "error"
           /\ result.normalized_location = normalize_location(call.location)

C4_LedgerLength ==
    IsProjection =>
        LET ledger == result.monthly_breakdown
        IN  /\ Len(ledger) = IF Breaches # {} THEN Least(Breaches) + 1 ELSE call.max_months
            /\ \A i \in 1..Len(ledger) :
                  LET target == target_of(now.month, now.year, i - 1)
                  IN  /\ ledger[i].month = month_name[target.month]
                      /\ ledger[i].year = target.year
            /\ \A i \in 1..(Len(ledger) - 1) :
                  ledger[i].remaining_stock >= LOW_INVENTORY_THRESHOLD

C4_Witness ==
    /\ IsProjection /\ Breaches # {}
    /\ Least(Breaches) = 1
    /\ call.max_months = 3
    /\ Len(result.monthly_breakdown) = 2

\* C5: in every ledger entry remaining_stock is current_stock minus the
\* usage of the entries up to it, usage is a natural number, a negative
\* remaining_stock is reported as it is, and remaining_stock never grows
\* along the ledger.
C5_LedgerArithmetic ==
    IsProjection =>
        LET ledger == result.monthly_breakdown
        IN  /\ \A i \in 1..Len(ledger) :
                  /\ ledger[i].usage \in Nat
                  /\ ledger[i].usage = UsageAt(i - 1)
                  /\ ledger[i].remaining_stock = result.current_stock - LedgerUsage(ledger, i)
            /\ \A i \in 1..(Len(ledger) - 1) :
                  ledger[i + 1].remaining_stock <= ledger[i].remaining_stock
            /\ (\A i \in 1..Len(ledger) : ledger[i].usage = 0)
                  => \A i \in 1..Len(ledger) : ledger[i].remaining_stock = result.current_stock

C5_Witness ==
    /\ IsProjection
    /\ \E i \in 1..Len(result.monthly_breakdown) :
          /\ result.monthly_breakdown[i].usage = 2
          /\ result.monthly_breakdown[i].remaining_stock = -2

\* C6: a call whose gift_type is outside {birthday, anniversary,
\* service_completion} returns no projection.
C6_BadGiftTypeNoProjection ==
    (IsSimCall /\ call.gift_type \notin GiftTypes) => result.kind # "projection"

----------------------------------------------------------------------------
(* Reference quantities for the properties of the milestone counter *)

IsCounts == call.op = "calculate_monthly_milestone_counts" /\ result.kind = "counts"

Cols == find_cols(df_columns(milestone_data))
HasLocationCol == Cols.location_col # NoCol

Milestones == {"birthday", "anniversary", "service"}

CountsOf(milestone) ==
    CASE milestone = "birthday" -> result.birthday_counts
      [] milestone = "anniversary" -> result.anniversary_counts
      [] milestone = "service" -> result.service_counts

MonthColOf(milestone) ==
    CASE milestone = "birthday" -> Cols.dob_month_col
      [] milestone = "anniversary" -> NoCol
      [] milestone = "service" -> Cols.doj_month_col

DateColOf(milestone) ==
    CASE milestone = "birthday" -> Cols.dob_col
      [] milestone = "anniversary" -> Cols.dom_col
      [] milestone = "service" -> Cols.doj_col

\* the value the counter reads for a milestone of a record: the month
\* column of the data set when there is one, else the date column
SourceValue(row, milestone) ==
    IF MonthColOf(milestone) # NoCol THEN row_get(row, MonthColOf(milestone))
    ELSE IF DateColOf(milestone) # NoCol THEN row_get(row, DateColOf(milestone))
    ELSE PyNone

LocationOfRow(i) == row_location(milestone_data[i], Cols.location_col)

\* the records whose resolved month for the milestone is the target month
Qualifying(milestone) ==
    {i \in 1..Len(milestone_data) :
        extract_month_from_date(SourceValue(milestone_data[i], milestone))
            = Some(call.target_month)}

RECURSIVE SumValues(_)
SumValues(d) ==
    IF DOMAIN d = {} THEN 0
    ELSE LET k == CHOOSE k \in DOMAIN d : TRUE
         IN  d[k] + SumValues([j \in DOMAIN d \ {k} |-> d[j]])

\* a month a value validly states: a number or digit string in 1..12, or
\* the month of a date; <<>> for null, text and numbers outside 1..12
ValidMonth(v) ==
    CASE v.t \in {"num", "digits"} /\ v.n \in 1..12 -> Some(v.n)
      [] v.t = "date" -> Some(v.n)
      [] OTHER -> None

----------------------------------------------------------------------------
(* Properties of calculate_monthly_milestone_counts *)

\* C7: with a location column, each of the three mappings sums to the
\* number of records whose resolved month is target_month; every record
\* adds at most 1, under its normalized location, and every count is
\* positive.
C7_Conservation ==
    (IsCounts /\ HasLocationCol) =>
        \A milestone \in Milestones :
            LET counts == CountsOf(milestone)
                Q == Qualifying(milestone)
            IN  /\ SumValues(counts) = Cardinality(Q)
                /\ DOMAIN counts = {LocationOfRow(i) : i \in Q}
                /\ \A l \in DOMAIN counts :
                      /\ counts[l] > 0
                      /\ counts[l] = Cardinality({i \in Q : LocationOfRow(i) = l})

C7_Witness ==
    /\ IsCounts /\ HasLocationCol
    /\ Len(milestone_data) = 2
    /\ row_get(milestone_data[1], Cols.location_col) # row_get(milestone_data[2], Cols.location_col)
    /\ result.birthday_counts = ("Indore-YASH IT Park-SC-DC" :> 2)

\* C8: a record whose pre-computed month is null or invalid but whose date
\* of birth or joining parses to target_month is counted for that
\* milestone.
C8_FallsBackToDate ==
    (IsCounts /\ HasLocationCol) =>
        \A milestone \in {"birthday", "service"} : \A i \in 1..Len(milestone_data) :
            ( /\ MonthColOf(milestone) # NoCol /\ DateColOf(milestone) # NoCol
              /\ ValidMonth(row_get(milestone_data[i], MonthColOf(milestone))) = None
              /\ ValidMonth(row_get(milestone_data[i], DateColOf(milestone)))
                    = Some(call.target_month) )
            => dict_get(CountsOf(milestone), LocationOfRow(i), 0) >= 1

\* C9: a record whose month source is null, unparseable or a number or
\* digit string outside 1..12 adds nothing to the milestone's counts,
\* whatever the target month; the other records count as without it.
C9_InvalidMonthExcluded ==
    (IsCounts /\ HasLocationCol) =>
        \A milestone \in Milestones :
            SumValues(CountsOf(milestone))
                = Cardinality({i \in 1..Len(milestone_data) :
                      ValidMonth(SourceValue(milestone_data[i], milestone))
                          = Some(call.target_month)})

\* C10: the mappings returned for (target_month, target_year) are those
\* returned for target_month and any other year.
C10_YearIndependent ==
    IsCounts =>
        \A other_year \in TargetYears :
            calculate_monthly_milestone_counts(milestone_data, call.target_month, other_year)
                = <<result.birthday_counts, result.anniversary_counts, result.service_counts>>

C10_Witness ==
    /\ IsCounts
    /\ call.target_year = 2025
    /\ \E i \in 1..Len(milestone_data) :
          /\ SourceValue(milestone_data[i], "service") = DateStr(call.target_month, 2026)
          /\ dict_get(result.service_counts, LocationOfRow(i), 0) >= 1

\* C11: when the record set has none of the location columns, the call
\* returns three empty mappings and raises nothing, whatever the month
\* and date fields of the records hold.
C11_NoLocationColumnIsEmpty ==
    (call.op = "calculate_monthly_milestone_counts" /\ ~HasLocationCol)
        => /\ result.kind = "counts"
           /\ result.birthday_counts = EmptyDict
           /\ result.anniversary_counts = EmptyDict
           /\ result.service_counts = EmptyDict

C11_Witness ==
    /\ IsCounts /\ ~HasLocationCol
    /\ \E i \in 1..Len(milestone_data) :
          extract_month_from_date(row_get(milestone_data[i], Cols.dob_col))
              = Some(call.target_month)
    /\ result.birthday_counts = EmptyDict

\* the record has no location value of its own
MissingLocation(i) ==
    LET location == row_get(milestone_data[i], Cols.location_col)
    IN  falsy(location) \/ isna(location)

\* C12: with a location column, the records without a location value add
\* to the key "Unknown" of each mapping for which their month is
\* target_month, and to no other key: "Unknown" holds them together with
\* the records that name it, every other key only the records naming it.
C12_MissingLocationIsUnknown ==
    (IsCounts /\ HasLocationCol) =>
        \A milestone \in Milestones :
            LET counts == CountsOf(milestone)
                Q == Qualifying(milestone)
                U == {i \in Q : MissingLocation(i)}
                Named(l) == {i \in Q \ U :
                    normalize_location(row_get(milestone_data[i], Cols.location_col)) = l}
            IN  /\ dict_get(counts, "Unknown", 0) = Cardinality(U) + Cardinality(Named("Unknown"))
                /\ \A l \in DOMAIN counts \ {"Unknown"} : counts[l] = Cardinality(Named(l))

C12_Witness ==
    /\ IsCounts /\ HasLocationCol
    /\ \E i, j \in 1..Len(milestone_data) :
          /\ MissingLocation(i) /\ ~MissingLocation(j)
          /\ \A milestone \in Milestones : {i, j} \subseteq Qualifying(milestone)
    /\ \A milestone \in Milestones :
          dict_get(CountsOf(milestone), "Unknown", 0) = 1

----------------------------------------------------------------------------
(* Reference quantities for the properties of the location normalizer and
   the inventory reader *)

IsNormalize == call.op = "normalize_location"
IsSnapshot == call.op = "get_current_inventory_by_location" /\ falsy(call.location)
IsFiltered == call.op = "get_current_inventory_by_location" /\ ~falsy(call.location)

\* a null, empty or whitespace-only value
Blank(v) == isna(v) \/ (v.t = "str" /\ v.s \in {"", "  "})

\* the text of a string without its outer whitespace
Trimmed(x) == IF x = " YIT " THEN "YIT" ELSE x

\* the gift type a workbook label stands for, NoCol for none
LabelGiftType(workbook) ==
    CASE "birthday" \in LabelWords[workbook] -> "birthday"
      [] "birthday" \notin LabelWords[workbook]
         /\ LabelWords[workbook] \cap {"as on", "anniversary"} # {} -> "anniversary"
      [] LabelWords[workbook] \cap {"birthday", "as on", "anniversary"} = {}
         /\ "service" \in LabelWords[workbook] -> "service_completion"
      [] OTHER -> NoCol

\* the quantity cell of a stored row, NaN when the row has no such cell
QuantityCell(i) ==
    LET data == inventory_data[i].data
    IN  IF \E key \in DOMAIN data : is_quantity_key(key)
        THEN data[CHOOSE key \in DOMAIN data : is_quantity_key(key)]
        ELSE PyNone

HasQuantityCell(i) == \E key \in DOMAIN inventory_data[i].data : is_quantity_key(key)

\* the stored rows with a quantity cell that belong to a location and a gift type
RowsOf(loc, gift_type) ==
    {i \in 1..Len(inventory_data) :
        /\ HasQuantityCell(i)
        /\ normalize_location(inventory_data[i].location) = loc
        /\ LabelGiftType(inventory_data[i].workbook) = gift_type}

\* the number a quantity cell states; 0 for null and for text that is no number
NumberOf(v) == IF v.t \in {"num", "digits"} THEN v.n ELSE 0

RECURSIVE SumQuantities(_)
SumQuantities(S) ==
    IF S = {} THEN 0
    ELSE LET i == CHOOSE i \in S : TRUE
         IN  NumberOf(QuantityCell(i)) + SumQuantities(S \ {i})

StoredLocations == {normalize_location(inventory_data[i].location) : i \in 1..Len(inventory_data)}

\* the quantity the returned snapshot holds for a location and a gift type
SnapshotQuantity(loc, gift_type) ==
    dict_get(dict_get(result.inventory, loc, EmptyDict), gift_type, 0)

----------------------------------------------------------------------------
(* Properties of normalize_location and get_current_inventory_by_location *)

\* C13: normalize_location returns "Unknown" for every null, empty or
\* whitespace-only input.
C13_BlankIsUnknown ==
    (IsNormalize /\ Blank(call.location))
        => result = [kind |-> "location", value |-> "Unknown"]

\* C14: for a non-blank input normalize_location returns the canonical
\* name of the trimmed text when that text is a key of LOCATION_ALIASES,
\* matched exactly and case-sensitively, and the trimmed text otherwise;
\* an alias and its canonical name give the same value.
C14_TrimThenAlias ==
    (IsNormalize /\ ~Blank(call.location)) =>
        LET trimmed == Trimmed(call.location.s)
        IN  /\ result.kind = "location"
            /\ trimmed \in DOMAIN LOCATION_ALIASES => result.value = LOCATION_ALIASES[trimmed]
            /\ trimmed \notin DOMAIN LOCATION_ALIASES => result.value = trimmed
            /\ \A a \in DOMAIN LOCATION_ALIASES :
                  trimmed \in {a, LOCATION_ALIASES[a]} => result.value = LOCATION_ALIASES[a]

C14_Witness ==
    /\ IsNormalize
    /\ call.location = Str(" YIT ")
    /\ result.value = "Indore-YASH IT Park-SC-DC"

\* C15: in the snapshot the quantity of each (normalized location, gift
\* type) is the sum of the parsed quantities of all the stored rows of
\* that location and gift type, rows stored under different aliases of
\* one location included; the snapshot has no other entry.
C15_QuantitiesAreSummed ==
    IsSnapshot =>
        /\ result.kind = "inventory"
        /\ \A loc \in DOMAIN result.inventory : \A gift_type \in DOMAIN result.inventory[loc] :
              /\ RowsOf(loc, gift_type) # {}
              /\ result.inventory[loc][gift_type] = SumQuantities(RowsOf(loc, gift_type))
        /\ \A loc \in StoredLocations : \A gift_type \in GiftTypes :
              SnapshotQuantity(loc, gift_type) = SumQuantities(RowsOf(loc, gift_type))

C15_Witness ==
    /\ IsSnapshot
    /\ Len(inventory_data) = 2
    /\ inventory_data[1].location # inventory_data[2].location
    /\ NumberOf(QuantityCell(1)) > 0 /\ NumberOf(QuantityCell(2)) > 0
    /\ result.inventory = ("Indore-YASH IT Park-SC-DC" :>
            ("birthday" :> (NumberOf(QuantityCell(1)) + NumberOf(QuantityCell(2)))))

\* C16: a row counts for birthday when its label contains "birthday",
\* else for anniversary when it contains "as on" or "anniversary", else
\* for service_completion when it contains "service", letter case
\* ignored; a row whose label contains none of them adds to no gift type
\* and does not make its location a key of the snapshot.
C16_GiftTypeFromLabel ==
    IsSnapshot =>
        /\ \A i \in 1..Len(inventory_data) :
              LET loc == normalize_location(inventory_data[i].location)
                  gift_type == LabelGiftType(inventory_data[i].workbook)
              IN  (HasQuantityCell(i) /\ gift_type # NoCol)
                      => /\ loc \in DOMAIN result.inventory
                         /\ gift_type \in DOMAIN result.inventory[loc]
        /\ \A loc \in DOMAIN result.inventory :
              /\ DOMAIN result.inventory[loc] \subseteq GiftTypes
              /\ \A gift_type \in DOMAIN result.inventory[loc] :
                    \E i \in 1..Len(inventory_data) :
                        /\ normalize_location(inventory_data[i].location) = loc
                        /\ LabelGiftType(inventory_data[i].workbook) = gift_type

C16_Witness ==
    /\ IsSnapshot
    /\ Len(inventory_data) = 2
    /\ inventory_data[1].workbook = "Welcome Kit"
    /\ inventory_data[2].workbook = "Birthday Service"
    /\ result.inventory = ("B" :> ("birthday" :> 1))

\* C17: a row whose quantity is missing, null or no number adds 0 to the
\* sum of its location and gift type, and the rows after it are still
\* counted: every sum is that of the rows whose quantity is a number.
C17_BadQuantityIsZero ==
    IsSnapshot =>
        /\ result.kind = "inventory"
        /\ \A loc \in StoredLocations : \A gift_type \in GiftTypes :
              SnapshotQuantity(loc, gift_type)
                  = SumQuantities({i \in RowsOf(loc, gift_type) :
                                       QuantityCell(i).t \in {"num", "digits"}})

C17_Witness ==
    /\ IsSnapshot
    /\ Len(inventory_data) = 2
    /\ QuantityCell(1) = Str("abc")
    /\ QuantityCell(2) = Num(5)
    /\ result.inventory = ("Indore-YASH IT Park-SC-DC" :> ("birthday" :> 5))

\* C18: with a location filter the result has exactly one key, the
\* normalized filter, and its value is the mapping the full snapshot
\* holds for that location, or an empty mapping when it holds none.
C18_FilterIsOneKey ==
    IsFiltered =>
        LET normalized_loc == normalize_location(call.location)
            snapshot == summarize(inventory_data, 1, EmptyDict)
        IN  /\ result.kind = "inventory"
            /\ DOMAIN result.inventory = {normalized_loc}
            /\ result.inventory[normalized_loc] =
                  IF normalized_loc \in DOMAIN snapshot
                  THEN snapshot[normalized_loc] ELSE EmptyDict

C18_Witness ==
    /\ IsFiltered
    /\ call.location = Str("Pune")
    /\ Len(inventory_data) = 2
    /\ result.inventory = ("Pune" :> EmptyDict)

----------------------------------------------------------------------------
(* Properties of get_location_inventory_projection and
   get_all_locations_restock_schedule *)

IsReport == call.op = "get_location_inventory_projection" /\ result.kind = "report"
IsSchedule == call.op = "get_all_locations_restock_schedule" /\ result.kind = "schedule"

\* the three gift-type projections of a report
GiftProjections(report) ==
    {report.birthday_gifts, report.anniversary_gifts, report.service_completion_gifts}

\* the ledger of a projection never shows a stock below the threshold
NeverBreaches(projection) ==
    \A i \in 1..Len(projection.monthly_breakdown) :
        projection.monthly_breakdown[i].remaining_stock >= LOW_INVENTORY_THRESHOLD

\* months until restock of a gift type, +infinity when it never breaches
MonthsOrNever(projection) ==
    IF projection.kind # "projection" \/ NeverBreaches(projection)
    THEN Inf
    ELSE Fin(projection.months_until_restock[1])

\* C19: earliest_restock_needed of a report is the minimum of the three
\* gift types' months_until_restock, a gift type that never breaches the
\* threshold within the horizon counting as +infinity.
C19_EarliestIsMinimum ==
    IsReport =>
        LET earliest == result.summary.earliest_restock_needed
        IN  /\ \E projection \in GiftProjections(result) : earliest = MonthsOrNever(projection)
            /\ \A projection \in GiftProjections(result) :
                  ext_le(earliest, MonthsOrNever(projection))

\* C20: urgent_restocks holds exactly the projected locations whose
\* earliest_restock_needed is at most 3, each once, with that value, in
\* ascending order of it.
C20_UrgentIsAtMostThree ==
    IsSchedule =>
        LET urgent == result.urgent_restocks
            EarliestOf(loc) == result.all_locations[loc].summary.earliest_restock_needed
        IN  /\ \A loc \in DOMAIN result.all_locations :
                  ext_le(EarliestOf(loc), Fin(3))
                      <=> \E j \in 1..Len(urgent) : urgent[j].location = loc
            /\ \A j \in 1..Len(urgent) :
                  /\ urgent[j].location \in DOMAIN result.all_locations
                  /\ urgent[j].months_until_restock = EarliestOf(urgent[j].location)
            /\ \A j, k \in 1..Len(urgent) :
                  /\ j # k => urgent[j].location # urgent[k].location
                  /\ j < k => ext_le(urgent[j].months_until_restock,
                                     urgent[k].months_until_restock)

C20_Witness ==
    /\ IsSchedule
    /\ result.total_locations = 2
    /\ Len(result.urgent_restocks) = 1
    /\ result.urgent_restocks[1].months_until_restock = Fin(2)
    /\ \E loc \in DOMAIN result.all_locations :
          result.all_locations[loc].summary.earliest_restock_needed = Fin(6)

\* the normalized locations of the stored inventory rows that the snapshot
\* counts: rows with a quantity cell and a label of one of the gift types
SnapshotLocations ==
    {normalize_location(inventory_data[i].location) :
        i \in {j \in 1..Len(inventory_data) :
                 HasQuantityCell(j) /\ LabelGiftType(inventory_data[j].workbook) # NoCol}}

\* C21: for a horizon of at least one month the schedule holds one report
\* for each distinct normalized location of the inventory snapshot and for
\* no other location, total_locations is their number, and a location
\* that only employee records name is left out without an error.
C21_ProjectsSnapshotLocations ==
    (call.op = "get_all_locations_restock_schedule" /\ call.max_months >= 1) =>
        /\ result.kind = "schedule"
        /\ DOMAIN result.all_locations = SnapshotLocations
        /\ result.total_locations = Cardinality(SnapshotLocations)
        /\ \A loc \in DOMAIN result.all_locations :
              /\ result.all_locations[loc].kind = "report"
              /\ result.all_locations[loc].normalized_location = loc

C21_Witness ==
    /\ IsSchedule
    /\ \E i \in 1..Len(milestone_data) :
          normalize_location(milestone_data[i]["Location"]) = "B"
    /\ DOMAIN result.all_locations = {"Indore-YASH IT Park-SC-DC"}
    /\ result.total_locations = 1
    /\ result.all_locations["Indore-YASH IT Park-SC-DC"].summary.earliest_restock_needed
          = Fin(call.max_months)
    /\ call.max_months = 6

\* C28: a location none of whose three gift types falls below the
\* threshold within the horizon is not in urgent_restocks, for every
\* horizon of at least one month.
C28_NeverBreachingIsNotUrgent ==
    (IsSchedule /\ call.max_months >= 1) =>
        \A j \in 1..Len(result.urgent_restocks) :
            \E projection \in GiftProjections(result.all_locations[result.urgent_restocks[j].location]) :
                ~NeverBreaches(projection)

\* C29: calculate_months_until_restock returns a projection or an error
\* result for every horizon max_months >= 0, max_months = 0 included.
C29_AlwaysReturns ==
    IsSimCall => result.kind \in {"projection", "error"}

\* C30: normalizing the value normalize_location returned gives that
\* value again.
C30_NormalizeIsIdempotent ==
    IsNormalize => normalize_location(Str(result.value)) = result.value

\* the number of the month a ledger entry names
MonthNumber(name) == CHOOSE k \in 1..12 : month_name[k] = name

\* C23: ledger entry 'offset' names the start month advanced by exactly
\* 'offset' calendar months: its month is in 1..12, December is followed
\* by January of the next year, and every other month by the next month
\* of the same year.
C23_LedgerFollowsCalendar ==
    IsProjection =>
        LET ledger == result.monthly_breakdown
        IN  /\ \A i \in 1..Len(ledger) :
                  /\ ledger[i].month \in {month_name[k] : k \in 1..12}
                  /\ 12 * ledger[i].year + (MonthNumber(ledger[i].month) - 1)
                        = 12 * now.year + (now.month - 1) + (i - 1)
            /\ \A i \in 1..(Len(ledger) - 1) :
                  IF ledger[i].month = "December"
                  THEN /\ ledger[i + 1].month = "January"
                       /\ ledger[i + 1].year = ledger[i].year + 1
                  ELSE /\ MonthNumber(ledger[i + 1].month) = MonthNumber(ledger[i].month) + 1
                       /\ ledger[i + 1].year = ledger[i].year

C23_Witness ==
    /\ IsProjection
    /\ now.month = 12
    /\ Len(result.monthly_breakdown) = 14
    /\ result.monthly_breakdown[2].month = "January"
    /\ result.monthly_breakdown[2].year = now.year + 1
    /\ result.monthly_breakdown[14].month = "January"
    /\ result.monthly_breakdown[14].year = now.year + 2

\* C26: a run of process_milestone_updates for a (month, year) that an
\* earlier run has already processed leaves the stored inventory rows as
\* they are.
C26_SecondRunChangesNothing ==
    [][(/\ Len(log') = Len(log) + 1
        /\ \E i \in 1..Len(log) : log[i] = log'[Len(log')])
       => inventory_data' = inventory_data]_vars

\* the call of caller c has committed a quantity that max(0, ...) did not clamp
CommittedUnclamped(c) ==
    /\ tasks[c].pc = "done"
    /\ tasks[c].value = "updated"
    /\ tasks[c].written.new_quantity = tasks[c].written.old_quantity + tasks[c].quantity_change

\* C27: when two calls on the same row have both committed and neither
\* was clamped at zero, the stored quantity is the initial quantity (the
\* one the first commit had read) plus both quantity changes.
C27_NoLostUpdate ==
    \A c1 \in Callers, c2 \in Callers :
        (/\ c1 # c2
         /\ DOMAIN tasks = Callers
         /\ CommittedUnclamped(c1)
         /\ CommittedUnclamped(c2)
         /\ tasks[c1].row = tasks[c2].row)
        => inventory_data[tasks[c1].row].data["Quantity Received"].n
              = log[1].old_quantity + tasks[c1].quantity_change + tasks[c2].quantity_change

\* caller c holds the value of a completed call
HoldsValue(c) == c \in DOMAIN tasks /\ tasks[c].pc = "done"

LoopRunning ==
    /\ scheduler._running
    /\ scheduler._task # 0
    /\ tasks[scheduler._task].pc # "done"

\* the scheduled update was started in month m
Triggered(m) ==
    \E i \in 1..Len(log) :
        log[i].line = "Triggering monthly inventory update" /\ log[i].month = m

C25_OneLoopOneUpdate ==
    /\ Cardinality({t \in 1..Len(tasks) :
                        tasks[t].pc # "done" /\ ~tasks[t].cancelled}) <= 1
    /\ \A i \in 1..Len(log), j \in 1..Len(log) :
          i # j => <<log[i].month, log[i].year>> # <<log[j].month, log[j].year>>

====
